---- MODULE Spec2Model ----
(***************************************************************************)
(* Model of optr's queue-based recorder                                    *)
(* (src/src/optr/stream/recorder/recorder.py, class Recorder).             *)
(*                                                                         *)
(* Caller threads run the public methods; a method that holds no lock, or  *)
(* that blocks while holding it, is split into one step per access to      *)
(* shared state.  Worker threads run _writer_loop.  The sinks returned by  *)
(* imageio.get_writer are the external world: each records the frames      *)
(* appended to it and the close() calls made on it.                        *)
(***************************************************************************)
EXTENDS Integers, Sequences, FiniteSets, TLC

\* ------------------------------------------------------------------ bounds
MaxOps == 5            \* API calls made in one run, all threads together
MaxTime == 1           \* clock ticks in one run

Ids == {"A", "B"}                  \* action ids the callers use
Threads == {"t1", "t2"}            \* caller threads
Workers == {1, 2}                  \* writer-loop threads that can be alive at once (0: no thread)
WorkerNames == <<"w1", "w2">>      \* what a writer-loop thread is called as holder of the lock

\* recorder.py:19-20: the default frame size
Width == 1280
Height == 720
\* add_frame's argument, by its length in bytes; NonePayload is None
NonePayload == 0 - 1
FrameBytes == Height * Width * 3
Payloads == {NonePayload, 0, FrameBytes - 1, FrameBytes, 2 * FrameBytes}

SecondsPerHour == 3600
Epoch == 2 * SecondsPerHour        \* time.time() at construction (any value above the ages used)
Ages == {0, 1}                     \* max_age_hours arguments

None == "None"
NoTime == 0 - 1                                   \* key absent from a recording dict
NoPath == [id |-> None, ts |-> 0]                 \* recording_file_path is None
Path(id, ts) == [id |-> id, ts |-> ts]            \* action_{id}_{ts}.mp4

\* what a call returned: the method, the way it returned ("same": the path at
\* line 85; "path": a path returned elsewhere; "caught": after add_frame's
\* exception handler; "not_recording": line 141) and the path returned, if any
Ret(op, kind, p) == [op |-> op, kind |-> kind, path |-> p]
Pending == Ret("none", "pending", NoPath)

VARIABLES
    \* Recorder fields (recorder.py:39-67)
    frame_queue, writer_thread, writer_active, shutdown_event,
    is_recording, current_action_id, writer, recording_file_path,
    lock, active_recordings, frames_queued, frames_written,
    \* the world outside the Recorder
    sinks,          \* every writer imageio.get_writer returned, by handle 1..Len(sinks)
    now,            \* time.time()
    \* threads
    pc, loc, ret,   \* caller threads: position, locals, last return value
    wstate, wframe, \* writer-loop threads: position, the message in hand
    \* history
    ops,            \* API calls made so far
    nput,           \* DATA messages enqueued so far (a frame's uid is its enqueue rank)
    accepted,       \* add_frame calls that passed validation since the last session was registered
    eos_done,       \* sessions (by the handle of their sink) whose EOS message a worker has processed
    \* more of the Recorder and of the world outside it
    on_recording_finalized, \* recorder.py:63: the callback attribute (FALSE: None)
    finalize_calls, \* the calls made to the callback, in order
    files,          \* the paths at which a file exists in output_dir
    \* QueuedWriter fields (queued_writer.py:18-30)
    qw_queue,       \* self.queue: items (by uid) and None markers
    qw_active,      \* self.active
    qw_queued,      \* self.queued
    qw_written,     \* self.written
    qw_thread,      \* self.thread: position of _process_loop
    qw_frame,       \* the item _process_loop has in hand
    \* the QueuedWriter's world and callers
    qw_sink,        \* the calls the wrapped writer has received, in order
    qw_pc, qw_loc,  \* caller threads: position, locals
    qw_calls,       \* write() and close() calls made so far
    qw_nput         \* items enqueued so far (an item's uid is its enqueue rank)

\* the QueuedWriter and what is around it
queued_writer == <<qw_queue, qw_active, qw_queued, qw_written, qw_sink, qw_thread,
                   qw_frame, qw_pc, qw_loc, qw_calls, qw_nput>>

vars == <<frame_queue, writer_thread, writer_active, shutdown_event,
          is_recording, current_action_id, writer, recording_file_path,
          lock, active_recordings, frames_queued, frames_written,
          sinks, now, pc, loc, ret, wstate, wframe, ops, nput, accepted, eos_done,
          on_recording_finalized, finalize_calls, files, queued_writer>>

\* groups for UNCHANGED
session == <<is_recording, current_action_id, recording_file_path>>
threadctl == <<writer_thread, writer_active, shutdown_event>>
counters == <<frames_queued, frames_written>>
workers == <<wstate, wframe>>
history == <<ops, nput, accepted, eos_done>>
hist == <<nput, accepted, eos_done>>
callbacks == <<on_recording_finalized, finalize_calls>>
\* everything of the Recorder and what is around it
recorder == <<frame_queue, threadctl, session, writer, lock, active_recordings,
              counters, sinks, now, pc, loc, ret, workers, history, callbacks, files>>

\* ------------------------------------------------------------------ data
Loc0 == [id |-> None, start_time |-> 0, action_id |-> None, frame_number |-> 0,
         fq |-> 0, key |-> None, gen |-> 0, cnt |-> 0, prev |-> None]

NoFrame == [type |-> "none", action_id |-> None, frame_number |-> 0, uid |-> 0, gen |-> 0]
\* gen: the sink that was open when the frame was accepted (0: none)
DataMsg(a, n, u, g) == [type |-> "DATA", action_id |-> a, frame_number |-> n, uid |-> u, gen |-> g]
EosMsg(a, g) == [type |-> "EOS", action_id |-> a, frame_number |-> 0, uid |-> 0, gen |-> g]

\* recorder.py:122-127; gen is the identity of the dict object (the handle of the
\* sink opened by the same start_recording call)
NewRecording(p, st, g) ==
    [file_path |-> p, start_time |-> st, status |-> "recording", frame_count |-> 0,
     end_time |-> NoTime, duration |-> NoTime, gen |-> g]

\* a sink: the frames appended (each with the sink it was accepted for), the
\* close() calls made, whether a call raised
NewSink(p) == [path |-> p, closes |-> 0, frames |-> <<>>, raised |-> FALSE]

\* queued_writer.py:50: the EOS marker None; an item is written as its uid >= 1
QwNone == 0
\* a caller's locals: the value of self.queued it read (line 39), and, for
\* close(), the number of items that had been enqueued when it was called
QwLoc0 == [queued |-> 0, mark |-> 0]
\* what the wrapped writer received: write(item), which returned or raised, or
\* close(), made by a call that began when mark items had been enqueued
SinkWrite(item, raised) == [op |-> "write", item |-> item, raised |-> raised, mark |-> 0]
SinkClose(mark) == [op |-> "close", item |-> QwNone, raised |-> FALSE, mark |-> mark]

EmptyDict == [x \in {} |-> 0]
\* the dict with key k removed
Without_Keep(d, k) == d
Without(d, k) == [x \in DOMAIN d \ {k} |-> d[x]]
\* the dict with d[k] = v
With(d, k, v) == [x \in DOMAIN d \cup {k} |-> IF x = k THEN v ELSE d[x]]

Alive(w) == wstate[w] # "off"
\* recorder.py:471: self.writer_thread and self.writer_thread.is_alive()
ThreadAlive == IF writer_thread = 0 THEN FALSE ELSE Alive(writer_thread)
FreeWorkers == {w \in Workers : ~Alive(w)}

Init ==
    /\ frame_queue = <<>>
    /\ writer_thread = 0
    /\ writer_active = FALSE
    /\ shutdown_event = FALSE
    /\ is_recording = FALSE
    /\ current_action_id = None
    /\ writer = 0
    /\ recording_file_path = NoPath
    /\ lock = None
    /\ active_recordings = EmptyDict
    /\ frames_queued = 0
    /\ frames_written = 0
    /\ sinks = <<>>
    /\ now = Epoch
    /\ pc = [t \in Threads |-> "idle"]
    /\ loc = [t \in Threads |-> Loc0]
    /\ ret = [t \in Threads |-> Pending]
    /\ wstate = [w \in Workers |-> "off"]
    /\ wframe = [w \in Workers |-> NoFrame]
    /\ ops = 0
    /\ nput = 0
    /\ accepted = 0
    /\ eos_done = {}
    /\ on_recording_finalized = FALSE
    /\ finalize_calls = <<>>
    /\ files = {}
    /\ qw_queue = <<>>
    /\ qw_active = TRUE
    /\ qw_queued = 0
    /\ qw_written = 0
    /\ qw_thread = "get"
    /\ qw_frame = QwNone
    /\ qw_sink = <<>>
    /\ qw_pc = [t \in Threads |-> "idle"]
    /\ qw_loc = [t \in Threads |-> QwLoc0]
    /\ qw_calls = 0
    /\ qw_nput = 0

\* a caller thread moves on
Goto(t, l) == pc' = [pc EXCEPT ![t] = l]
\* a call returns: the thread is idle again and its locals are dropped
Return(t, v) ==
    /\ pc' = [pc EXCEPT ![t] = "idle"]
    /\ loc' = [loc EXCEPT ![t] = Loc0]
    /\ ret' = [ret EXCEPT ![t] = v]
\* a call begins
Begin(t) ==
    /\ pc[t] = "idle"
    /\ ops < MaxOps
    /\ ops' = ops + 1

\* ------------------------------------------------------- start_recording
\* recorder.py:78: start_time is read before the lock is taken
start_recording_call(t, id) ==
    /\ Begin(t)
    /\ Goto(t, "sr_lock")
    /\ loc' = [loc EXCEPT ![t] = [Loc0 EXCEPT !.id = id, !.start_time = now]]
    /\ ret' = [ret EXCEPT ![t] = Pending]
    /\ UNCHANGED <<frame_queue, threadctl, session, writer, lock, active_recordings,
                   counters, sinks, now, workers, hist, callbacks, files,
                   queued_writer>>

\* line 81 with a test that never holds: every call opens a new sink
SameAction_Never(id) == FALSE

\* recorder.py:81
SameAction(id) == is_recording /\ current_action_id = id

\* recorder.py:79-92: take the lock; the same id again returns at once
start_recording_enter(t) ==
    /\ pc[t] = "sr_lock"
    /\ lock = None
    /\ IF SameAction(loc[t].id)
         THEN /\ Return(t, IF recording_file_path # NoPath
                             THEN Ret("start", "same", recording_file_path)
                             ELSE Ret("start", "empty", NoPath))
              /\ UNCHANGED lock
         ELSE /\ lock' = t
              /\ Goto(t, IF is_recording THEN "sr_drain" ELSE "sr_path")
              /\ loc' = [loc EXCEPT ![t].prev = IF is_recording THEN current_action_id
                                                               ELSE None]
              /\ UNCHANGED ret
    /\ UNCHANGED <<frame_queue, threadctl, session, writer, active_recordings,
                   counters, sinks, now, workers, history, callbacks, files,
                   queued_writer>>

\* recorder.py:421-427
CompletedRecording(r, time) ==
    [r EXCEPT !.status = "completed", !.end_time = time, !.duration = time - r.start_time]

\* a close that leaves the handle in self.writer
AfterClose_Kept(h) == h

\* recorder.py:248-249 and 418-419: 'finally: self.writer = None' after close()
AfterClose(h) == 0

\* recorder.py:405-408: the 15 s of the wait pass with the queue not empty: every
\* writer loop that runs has a message in hand and waits for the lock, which
\* the caller holds, so nothing takes a message from the queue
DrainTimesOut == \A w \in Workers : Alive(w) => wstate[w] = "hold"

\* recorder.py:398-434 (_stop_current_recording), called with the lock held: wait
\* until the queue is empty or 15 s have passed, close the sink in the calling
\* thread (whether that close raises makes no difference, lines 416-419), mark
\* the session completed, clear the active session
stop_current_recording(t) ==
    /\ pc[t] = "sr_drain"
    /\ frame_queue = <<>> \/ DrainTimesOut
    /\ IF writer # 0
         THEN sinks' = [sinks EXCEPT ![writer].closes = @ + 1]
         ELSE UNCHANGED sinks
    /\ writer' = AfterClose(writer)
    /\ IF current_action_id # None /\ current_action_id \in DOMAIN active_recordings
         THEN active_recordings' =
                [active_recordings EXCEPT
                   ![current_action_id] = CompletedRecording(@, now)]
         ELSE UNCHANGED active_recordings
    /\ is_recording' = FALSE
    /\ current_action_id' = None
    /\ recording_file_path' = NoPath
    /\ Goto(t, "sr_path")
    /\ UNCHANGED <<frame_queue, threadctl, lock, counters, now, loc, ret, workers, history, callbacks, files,
                   queued_writer>>

\* recorder.py:94-111: the path, the sink (imageio.get_writer may raise, which
\* leaves the with-block and releases the lock), the frame counters
start_recording_open(t) ==
    /\ pc[t] = "sr_path"
    /\ recording_file_path' = Path(loc[t].id, now)
    /\ \E created \in BOOLEAN :
         IF created
           THEN /\ sinks' = Append(sinks, NewSink(Path(loc[t].id, now)))
                /\ writer' = Len(sinks) + 1
                /\ frames_queued' = 0
                /\ frames_written' = 0
                /\ Goto(t, "sr_flag")
                /\ UNCHANGED <<lock, loc, ret>>
           ELSE /\ lock' = None
                /\ Return(t, Ret("start", "raised", NoPath))
                /\ UNCHANGED <<sinks, writer, counters>>
    /\ UNCHANGED <<frame_queue, threadctl, is_recording, current_action_id,
                   active_recordings, now, workers, history, callbacks, files,
                   queued_writer>>

\* recorder.py:114
start_recording_flag(t) ==
    /\ pc[t] = "sr_flag"
    /\ is_recording' = TRUE
    /\ Goto(t, "sr_id")
    /\ UNCHANGED <<frame_queue, threadctl, current_action_id, recording_file_path,
                   writer, lock, active_recordings, counters, sinks, now, loc, ret,
                   workers, history, callbacks, files,
                   queued_writer>>

\* recorder.py:115
start_recording_id(t) ==
    /\ pc[t] = "sr_id"
    /\ current_action_id' = loc[t].id
    /\ Goto(t, "sr_thread")
    /\ UNCHANGED <<frame_queue, threadctl, is_recording, recording_file_path,
                   writer, lock, active_recordings, counters, sinks, now, loc, ret,
                   workers, history, callbacks, files,
                   queued_writer>>

\* recorder.py:118-119 and 213-216 (_start_writer_thread)
start_writer_thread_flag(t) ==
    /\ pc[t] = "sr_thread"
    /\ IF writer_active
         THEN Goto(t, "sr_track") /\ UNCHANGED writer_active
         ELSE Goto(t, "sr_clear") /\ writer_active' = TRUE
    /\ UNCHANGED <<frame_queue, writer_thread, shutdown_event, session, writer, lock,
                   active_recordings, counters, sinks, now, loc, ret, workers,
                   history, callbacks, files,
                   queued_writer>>

\* recorder.py:217
start_writer_thread_clear(t) ==
    /\ pc[t] = "sr_clear"
    /\ shutdown_event' = FALSE
    /\ Goto(t, "sr_spawn")
    /\ UNCHANGED <<frame_queue, writer_thread, writer_active, session, writer, lock,
                   active_recordings, counters, sinks, now, loc, ret, workers,
                   history, callbacks, files,
                   queued_writer>>

\* recorder.py:218-221: a new thread runs _writer_loop (the model holds at most
\* Cardinality(Workers) live ones)
start_writer_thread_spawn(t) ==
    /\ pc[t] = "sr_spawn"
    /\ FreeWorkers # {}
    /\ LET w == CHOOSE x \in FreeWorkers : \A y \in FreeWorkers : x <= y
       IN /\ wstate' = [wstate EXCEPT ![w] = "loop"]
          /\ writer_thread' = w
    /\ Goto(t, "sr_track")
    /\ UNCHANGED <<frame_queue, writer_active, shutdown_event, session, writer, lock,
                   active_recordings, counters, sinks, now, loc, ret, wframe,
                   history, callbacks, files,
                   queued_writer>>

\* recorder.py:122-132: register the session, return the path, release the lock
start_recording_track(t) ==
    /\ pc[t] = "sr_track"
    /\ active_recordings' =
         With(active_recordings, loc[t].id,
              NewRecording(recording_file_path, loc[t].start_time, writer))
    /\ accepted' = 0
    /\ lock' = None
    /\ Return(t, Ret("start", "path", recording_file_path))
    /\ UNCHANGED <<frame_queue, threadctl, session, writer, counters, sinks, now,
                   workers, ops, nput, eos_done, callbacks, files,
                   queued_writer>>

\* ------------------------------------------------------------- add_frame
\* add_frame takes no lock: every read and write of a Recorder field is a step.

\* line 140 with a test that never holds
NotRecording_Never == FALSE

\* recorder.py:140
NotRecording == ~is_recording

\* lines 145-146 with calls that never raise
Reshapes_Always(frame_bytes) == TRUE

\* lines 145-146 without the size test of reshape
Reshapes_AnySize(frame_bytes) == frame_bytes # NonePayload

\* recorder.py:145-146: np.frombuffer(frame_bytes, dtype=np.uint8) raises on None,
\* and reshape((height, width, 3)) raises unless the sizes agree
Reshapes(frame_bytes) ==
    /\ frame_bytes # NonePayload
    /\ frame_bytes = Height * Width * 3

\* recorder.py:140-146: not recording, or a payload that does not reshape to
\* (height, width, 3) (the exception is caught at line 180): nothing happens
add_frame_call(t, frame_bytes) ==
    /\ Begin(t)
    /\ IF ~NotRecording /\ Reshapes(frame_bytes)
         THEN /\ Goto(t, "af_build")
              /\ ret' = [ret EXCEPT ![t] = Pending]
         ELSE /\ ret' = [ret EXCEPT ![t] =
                           Ret("add", IF NotRecording THEN "not_recording" ELSE "caught",
                               NoPath)]
              /\ UNCHANGED pc
    /\ accepted' = IF is_recording /\ frame_bytes = Height * Width * 3
                     THEN accepted + 1 ELSE accepted
    /\ UNCHANGED <<frame_queue, threadctl, session, writer, lock, active_recordings,
                   counters, sinks, now, loc, workers, nput, eos_done, callbacks, files,
                   queued_writer>>

\* recorder.py:149-154
add_frame_build(t) ==
    /\ pc[t] = "af_build"
    /\ loc' = [loc EXCEPT ![t].action_id = current_action_id,
                          ![t].frame_number = frames_queued,
                          ![t].gen = writer]
    /\ Goto(t, "af_put")
    /\ UNCHANGED <<frame_queue, threadctl, session, writer, lock, active_recordings,
                   counters, sinks, now, ret, workers, history, callbacks, files,
                   queued_writer>>

\* recorder.py:157: the queue is unbounded, put_nowait never raises queue.Full
add_frame_put(t) ==
    /\ pc[t] = "af_put"
    /\ frame_queue' = Append(frame_queue,
                             DataMsg(loc[t].action_id, loc[t].frame_number, nput + 1,
                                     loc[t].gen))
    /\ nput' = nput + 1
    /\ Goto(t, "af_fq_read")
    /\ UNCHANGED <<threadctl, session, writer, lock, active_recordings, counters,
                   sinks, now, loc, ret, workers, ops, accepted, eos_done, callbacks, files,
                   queued_writer>>

\* recorder.py:158, self.frames_queued += 1: the read
add_frame_queued_read(t) ==
    /\ pc[t] = "af_fq_read"
    /\ loc' = [loc EXCEPT ![t].fq = frames_queued]
    /\ Goto(t, "af_fq_write")
    /\ UNCHANGED <<frame_queue, threadctl, session, writer, lock, active_recordings,
                   counters, sinks, now, ret, workers, history, callbacks, files,
                   queued_writer>>

\* recorder.py:158, self.frames_queued += 1: the write
add_frame_queued_write(t) ==
    /\ pc[t] = "af_fq_write"
    /\ frames_queued' = loc[t].fq + 1
    /\ Goto(t, "af_check")
    /\ UNCHANGED <<frame_queue, threadctl, session, writer, lock, active_recordings,
                   frames_written, sinks, now, loc, ret, workers, history, callbacks, files,
                   queued_writer>>

\* recorder.py:161-164
add_frame_check(t) ==
    /\ pc[t] = "af_check"
    /\ IF current_action_id # None /\ current_action_id \in DOMAIN active_recordings
         THEN Goto(t, "af_count_read") /\ UNCHANGED <<loc, ret>>
         ELSE Return(t, Ret("add", "none", NoPath))
    /\ UNCHANGED <<frame_queue, threadctl, session, writer, lock, active_recordings,
                   counters, sinks, now, workers, history, callbacks, files,
                   queued_writer>>

\* recorder.py:165, active_recordings[current_action_id]["frame_count"] += 1:
\* the dict of the id that is current now, and its count (a missing key raises
\* KeyError, caught at line 180)
add_frame_count_read(t) ==
    /\ pc[t] = "af_count_read"
    /\ IF current_action_id \in DOMAIN active_recordings
         THEN /\ loc' = [loc EXCEPT
                           ![t].key = current_action_id,
                           ![t].gen = active_recordings[current_action_id].gen,
                           ![t].cnt = active_recordings[current_action_id].frame_count]
              /\ Goto(t, "af_count_write")
              /\ UNCHANGED ret
         ELSE Return(t, Ret("add", "caught", NoPath))
    /\ UNCHANGED <<frame_queue, threadctl, session, writer, lock, active_recordings,
                   counters, sinks, now, workers, history, callbacks, files,
                   queued_writer>>

\* recorder.py:165: the write, into the dict object that was read (which a
\* start_recording or a delete may have taken out of the registry meanwhile)
add_frame_count_write(t) ==
    /\ pc[t] = "af_count_write"
    /\ IF /\ loc[t].key \in DOMAIN active_recordings
          /\ active_recordings[loc[t].key].gen = loc[t].gen
         THEN active_recordings' =
                [active_recordings EXCEPT ![loc[t].key].frame_count = loc[t].cnt + 1]
         ELSE UNCHANGED active_recordings
    /\ Return(t, Ret("add", "none", NoPath))
    /\ UNCHANGED <<frame_queue, threadctl, session, writer, lock, counters, sinks,
                   now, workers, history, callbacks, files,
                   queued_writer>>

\* -------------------------------------------------------- stop_recording
\* lines 289-294 with the status of lines 421-427
FinalizingRecording_Completed(r, time) ==
    [r EXCEPT !.status = "completed", !.end_time = time, !.duration = time - r.start_time]

\* recorder.py:289-294
FinalizingRecording(r, time) ==
    [r EXCEPT !.status = "finalizing", !.end_time = time, !.duration = time - r.start_time]

\* line 193 returning None whatever the state
NotActive_Always(id) == TRUE

\* line 193 without the comparison of the ids
NotActive_AnyId(id) == ~is_recording

\* recorder.py:193
NotActive(id) == ~is_recording \/ current_action_id # id

\* recorder.py:183-209 and 280-318 (_stop_current_recording_async), all of it
\* under the lock
stop_recording(t, id) ==
    /\ Begin(t)
    /\ lock = None
    /\ IF NotActive(id)
         THEN /\ ret' = [ret EXCEPT ![t] = Ret("stop", "none", NoPath)]
              /\ UNCHANGED <<frame_queue, session, writer, active_recordings>>
         ELSE /\ ret' = [ret EXCEPT ![t] =
                           IF recording_file_path # NoPath
                             THEN Ret("stop", "path", recording_file_path)
                             ELSE Ret("stop", "none", NoPath)]
              /\ IF id \in DOMAIN active_recordings
                   THEN active_recordings' =
                          [active_recordings EXCEPT ![id] = FinalizingRecording(@, now)]
                   ELSE UNCHANGED active_recordings
              /\ frame_queue' = Append(frame_queue, EosMsg(id, Len(sinks)))
              /\ is_recording' = FALSE
              /\ current_action_id' = None
              /\ writer' = 0
              /\ recording_file_path' = NoPath
    /\ UNCHANGED <<threadctl, lock, counters, sinks, now, pc, loc, workers, hist, callbacks, files,
                   queued_writer>>

\* ----------------------------------------------------------------- close
\* recorder.py:436-438: close is called
close_call(t) ==
    /\ Begin(t)
    /\ Goto(t, "cl_lock")
    /\ ret' = [ret EXCEPT ![t] = Pending]
    /\ UNCHANGED <<frame_queue, threadctl, session, writer, lock, active_recordings,
                   counters, sinks, now, loc, workers, hist, callbacks, files,
                   queued_writer>>

\* recorder.py:440-464, under the lock (put_nowait on the unbounded queue never
\* raises queue.Full, so lines 452-460 never run)
close_enter(t) ==
    /\ pc[t] = "cl_lock"
    /\ lock = None
    /\ IF is_recording /\ current_action_id # None
         THEN /\ frame_queue' = Append(frame_queue, EosMsg(current_action_id, Len(sinks)))
              /\ is_recording' = FALSE
              /\ current_action_id' = None
              /\ recording_file_path' = NoPath
         ELSE UNCHANGED <<frame_queue, session>>
    /\ Goto(t, "cl_flag")
    /\ UNCHANGED <<threadctl, writer, lock, active_recordings, counters, sinks, now,
                   loc, ret, workers, history, callbacks, files,
                   queued_writer>>

\* recorder.py:467
close_flag(t) ==
    /\ pc[t] = "cl_flag"
    /\ writer_active' = FALSE
    /\ Goto(t, "cl_event")
    /\ UNCHANGED <<frame_queue, writer_thread, shutdown_event, session, writer, lock,
                   active_recordings, counters, sinks, now, loc, ret, workers,
                   history, callbacks, files,
                   queued_writer>>

\* recorder.py:468
close_event(t) ==
    /\ pc[t] = "cl_event"
    /\ shutdown_event' = TRUE
    /\ Goto(t, "cl_join")
    /\ UNCHANGED <<frame_queue, writer_thread, writer_active, session, writer, lock,
                   active_recordings, counters, sinks, now, loc, ret, workers,
                   history, callbacks, files,
                   queued_writer>>

\* the lock is held for long: by a start_recording in its 15 s wait for the
\* queue (lines 403-408), or by a writer loop inside a sink call
LongHeld == lock # None /\ (lock \in Threads => pc[lock] = "sr_drain")

\* recorder.py:473: join(timeout=10) runs out when the thread cannot end within
\* 10 s (a hundred turns of its loop, whose get waits 0.1 s): the flags tell it
\* to go on, a start_recording having set them again; or it waits for the lock
\* while that is held for long; or it is inside a sink call that lasts
JoinTimesOut ==
    \/ writer_active /\ ~shutdown_event
    \/ wstate[writer_thread] = "hold" /\ LongHeld
    \/ wstate[writer_thread] = "io"

\* recorder.py:471-476: join returns when the thread has ended or when the
\* timeout has run out
close_join(t) ==
    /\ pc[t] = "cl_join"
    /\ ThreadAlive => JoinTimesOut
    /\ Goto(t, "cl_drain")
    /\ UNCHANGED <<frame_queue, threadctl, session, writer, lock, active_recordings,
                   counters, sinks, now, loc, ret, workers, history, callbacks, files,
                   queued_writer>>

\* recorder.py:479-487: one turn of the loop that empties the queue
close_drain(t) ==
    /\ pc[t] = "cl_drain"
    /\ IF frame_queue = <<>>
         THEN Return(t, Ret("close", "none", NoPath)) /\ UNCHANGED frame_queue
         ELSE frame_queue' = Tail(frame_queue) /\ UNCHANGED <<pc, loc, ret>>
    /\ UNCHANGED <<threadctl, session, writer, lock, active_recordings, counters,
                   sinks, now, workers, history, callbacks, files,
                   queued_writer>>

\* ---------------------------------------------------- finalize callback
\* test_recorder.py:264: the user assigns the attribute before the first call
set_on_recording_finalized ==
    /\ ops = 0
    /\ ~on_recording_finalized
    /\ on_recording_finalized' = TRUE
    /\ UNCHANGED <<frame_queue, threadctl, session, writer, lock, active_recordings,
                   counters, sinks, now, pc, loc, ret, workers, history,
                   finalize_calls, files,
                   queued_writer>>

\* recorder.py:360-396
FinalizedRecording(r, raised) ==
    [r EXCEPT !.status = IF raised THEN "error" ELSE "completed"]

\* recorder.py:320-396 (_finalize_recording_async): close the sink, mark the
\* session completed (or "error" when the close raised) and call the callback.
\* No line of the repository calls it or submits it to finalization_executor,
\* so it is a step of no specification.
finalize_recording_async(action_id, sink) ==
    /\ lock = None
    /\ \E raised \in BOOLEAN :
         /\ IF sink # 0
              THEN sinks' = [sinks EXCEPT ![sink].closes = @ + 1,
                                          ![sink].raised = @ \/ raised]
              ELSE UNCHANGED sinks
         /\ IF action_id \in DOMAIN active_recordings
              THEN active_recordings' =
                     [active_recordings EXCEPT
                        ![action_id] = FinalizedRecording(@, sink # 0 /\ raised)]
              ELSE UNCHANGED active_recordings
         /\ IF /\ on_recording_finalized
               /\ action_id \in DOMAIN active_recordings
               /\ ~(sink # 0 /\ raised)
              THEN finalize_calls' =
                     Append(finalize_calls,
                            [action_id |-> action_id, status |-> "completed"])
              ELSE UNCHANGED finalize_calls
    /\ UNCHANGED <<frame_queue, threadctl, session, writer, lock, counters, now, pc,
                   loc, ret, workers, history, on_recording_finalized, files,
                   queued_writer>>

\* ------------------------------------------- delete_recording and cleanup
\* recorder.py:517-535: the entry goes; the file, if there is one, is unlinked,
\* which may fail
delete_recording(t, id) ==
    /\ Begin(t)
    /\ IF id \notin DOMAIN active_recordings
         THEN /\ ret' = [ret EXCEPT ![t] = Ret("delete", "false", NoPath)]
              /\ UNCHANGED <<active_recordings, files>>
         ELSE LET file_path == active_recordings[id].file_path
              IN /\ active_recordings' = Without(active_recordings, id)
                 /\ \E unlinked \in BOOLEAN :
                      IF file_path \notin files \/ unlinked
                        THEN /\ files' = files \ {file_path}
                             /\ ret' = [ret EXCEPT ![t] = Ret("delete", "true", NoPath)]
                        ELSE /\ UNCHANGED files
                             /\ ret' = [ret EXCEPT ![t] = Ret("delete", "false", NoPath)]
    /\ UNCHANGED <<frame_queue, threadctl, session, writer, lock, counters, sinks,
                   now, pc, loc, workers, hist, callbacks,
                   queued_writer>>

\* recorder.py:544: recording.get("end_time", 0)
EndTimeOrZero(r) == IF r.end_time = NoTime THEN 0 ELSE r.end_time

\* recorder.py:537-556: the entries that ended before the cutoff go, and so do
\* the files last written before it (a file is written no earlier than its
\* path was made; which of the older ones were written since is not modelled)
cleanup_old_recordings(t, max_age_hours) ==
    /\ Begin(t)
    /\ LET cutoff_time == now - max_age_hours * SecondsPerHour
           to_remove == {a \in DOMAIN active_recordings :
                           EndTimeOrZero(active_recordings[a]) < cutoff_time}
       IN /\ active_recordings' =
               [a \in DOMAIN active_recordings \ to_remove |-> active_recordings[a]]
          /\ \E unlinked \in SUBSET {f \in files : f.ts < cutoff_time} :
               files' = files \ unlinked
    /\ ret' = [ret EXCEPT ![t] = Ret("cleanup", "none", NoPath)]
    /\ UNCHANGED <<frame_queue, threadctl, session, writer, lock, counters, sinks,
                   now, pc, loc, workers, hist, callbacks,
                   queued_writer>>

\* ---------------------------------------------------------- _writer_loop
\* recorder.py:228: self.writer_active and not self.shutdown_event.is_set(),
\* the two reads taken as one
writer_loop_test(w) ==
    /\ wstate[w] = "loop"
    /\ wstate' = [wstate EXCEPT
                    ![w] = IF writer_active /\ ~shutdown_event THEN "get" ELSE "off"]
    /\ UNCHANGED <<frame_queue, threadctl, session, writer, lock, active_recordings,
                   counters, sinks, now, pc, loc, ret, wframe, history, callbacks, files,
                   queued_writer>>

\* recorder.py:231 and 271-273: get(timeout=0.1)
writer_loop_get(w) ==
    /\ wstate[w] = "get"
    /\ IF frame_queue = <<>>
         THEN /\ wstate' = [wstate EXCEPT ![w] = "loop"]
              /\ UNCHANGED <<frame_queue, wframe>>
         ELSE /\ wframe' = [wframe EXCEPT ![w] = Head(frame_queue)]
              /\ frame_queue' = Tail(frame_queue)
              /\ wstate' = [wstate EXCEPT ![w] = "hold"]
    /\ UNCHANGED <<threadctl, session, writer, lock, active_recordings, counters,
                   sinks, now, pc, loc, ret, history, callbacks, files,
                   queued_writer>>

\* recorder.py:233-240: the EOS message; the lock is taken and line 240 tested
writer_loop_eos(w) ==
    /\ wstate[w] = "hold"
    /\ wframe[w].type = "EOS"
    /\ lock = None
    /\ IF writer # 0 /\ current_action_id = wframe[w].action_id
         THEN /\ lock' = WorkerNames[w]
              /\ wstate' = [wstate EXCEPT ![w] = "io"]
              /\ UNCHANGED <<wframe, eos_done>>
         ELSE /\ eos_done' = eos_done \cup {wframe[w].gen}
              /\ wstate' = [wstate EXCEPT ![w] = "loop"]
              /\ wframe' = [wframe EXCEPT ![w] = NoFrame]
              /\ UNCHANGED lock
    /\ UNCHANGED <<frame_queue, threadctl, session, writer, active_recordings, counters,
                   sinks, now, pc, loc, ret, ops, nput, accepted, callbacks, files,
                   queued_writer>>

\* a handler that lets the exception of a sink call end the loop
AfterSinkCall_Dies(raised) == IF raised THEN "off" ELSE "loop"

\* recorder.py:245-246 and 274-276: an exception of a sink call is caught inside
\* the while loop, which goes on to its next test either way
AfterSinkCall(raised) == "loop"

\* recorder.py:241-252: self.writer.close() returns or raises (caught at line
\* 245); either way writer becomes None and the lock is released
writer_loop_close(w) ==
    /\ wstate[w] = "io"
    /\ wframe[w].type = "EOS"
    /\ \E raises \in BOOLEAN :
         /\ sinks' = [sinks EXCEPT ![writer].closes = @ + 1,
                                   ![writer].raised = @ \/ raises]
         /\ wstate' = [wstate EXCEPT ![w] = AfterSinkCall(raises)]
    /\ writer' = AfterClose(writer)
    /\ lock' = None
    /\ eos_done' = eos_done \cup {wframe[w].gen}
    /\ wframe' = [wframe EXCEPT ![w] = NoFrame]
    /\ UNCHANGED <<frame_queue, threadctl, session, active_recordings, counters,
                   now, pc, loc, ret, ops, nput, accepted, callbacks, files,
                   queued_writer>>

\* recorder.py:254-259: a frame; the lock is taken and lines 256-259 tested
writer_loop_data(w) ==
    /\ wstate[w] = "hold"
    /\ wframe[w].type = "DATA"
    /\ lock = None
    /\ IF writer # 0 /\ wframe[w].action_id = current_action_id
         THEN /\ lock' = WorkerNames[w]
              /\ wstate' = [wstate EXCEPT ![w] = "io"]
              /\ UNCHANGED wframe
         ELSE /\ wstate' = [wstate EXCEPT ![w] = "loop"]
              /\ wframe' = [wframe EXCEPT ![w] = NoFrame]
              /\ UNCHANGED lock
    /\ UNCHANGED <<frame_queue, threadctl, session, writer, active_recordings, counters,
                   sinks, now, pc, loc, ret, history, callbacks, files,
                   queued_writer>>

\* recorder.py:260-276: self.writer.append_data(frame) returns, and the file
\* holds the frame, or raises (caught at line 274); the lock is released
writer_loop_append(w) ==
    /\ wstate[w] = "io"
    /\ wframe[w].type = "DATA"
    /\ \E appended \in BOOLEAN :
         IF appended
           THEN /\ sinks' = [sinks EXCEPT
                                      ![writer].frames =
                                         Append(@, [uid |-> wframe[w].uid,
                                                    gen |-> wframe[w].gen])]
                /\ frames_written' = frames_written + 1
                /\ files' = files \cup {sinks[writer].path}
                /\ wstate' = [wstate EXCEPT ![w] = AfterSinkCall(FALSE)]
           ELSE /\ sinks' = [sinks EXCEPT ![writer].raised = TRUE]
                /\ wstate' = [wstate EXCEPT ![w] = AfterSinkCall(TRUE)]
                /\ UNCHANGED <<frames_written, files>>
    /\ lock' = None
    /\ wframe' = [wframe EXCEPT ![w] = NoFrame]
    /\ UNCHANGED <<frame_queue, threadctl, session, writer, active_recordings,
                   frames_queued, now, pc, loc, ret, history, callbacks,
                   queued_writer>>

\* ---------------------------------------------------------- QueuedWriter
\* a QueuedWriter call begins, returns
QwBegin(t) ==
    /\ qw_pc[t] = "idle"
    /\ qw_calls < MaxOps
    /\ qw_calls' = qw_calls + 1
QwGoto(t, l) == qw_pc' = [qw_pc EXCEPT ![t] = l]
QwReturn(t) ==
    /\ qw_pc' = [qw_pc EXCEPT ![t] = "idle"]
    /\ qw_loc' = [qw_loc EXCEPT ![t] = QwLoc0]

\* queued_writer.py:34-35: write(frame) tests self.active
qw_write_call(t) ==
    /\ QwBegin(t)
    /\ IF qw_active THEN QwGoto(t, "w_put") ELSE UNCHANGED qw_pc
    /\ UNCHANGED <<qw_queue, qw_active, qw_queued, qw_written, qw_sink, qw_thread,
                   qw_frame, qw_loc, qw_nput, recorder>>

\* queued_writer.py:38: put_nowait on a queue without a size limit
qw_write_put(t) ==
    /\ qw_pc[t] = "w_put"
    /\ qw_nput' = qw_nput + 1
    /\ qw_queue' = Append(qw_queue, qw_nput + 1)
    /\ QwGoto(t, "w_read")
    /\ UNCHANGED <<qw_active, qw_queued, qw_written, qw_sink, qw_thread, qw_frame,
                   qw_loc, qw_calls, recorder>>

\* queued_writer.py:39: self.queued += 1 reads self.queued
qw_write_queued_read(t) ==
    /\ qw_pc[t] = "w_read"
    /\ qw_loc' = [qw_loc EXCEPT ![t].queued = qw_queued]
    /\ QwGoto(t, "w_write")
    /\ UNCHANGED <<qw_queue, qw_active, qw_queued, qw_written, qw_sink, qw_thread,
                   qw_frame, qw_calls, qw_nput, recorder>>

\* queued_writer.py:39: self.queued += 1 stores the sum
qw_write_queued_write(t) ==
    /\ qw_pc[t] = "w_write"
    /\ qw_queued' = qw_loc[t].queued + 1
    /\ QwReturn(t)
    /\ UNCHANGED <<qw_queue, qw_active, qw_written, qw_sink, qw_thread, qw_frame,
                   qw_calls, qw_nput, recorder>>

\* queued_writer.py:45-46: close() tests self.active
qw_close_call(t) ==
    /\ QwBegin(t)
    /\ IF qw_active
         THEN /\ QwGoto(t, "c_flag")
              /\ qw_loc' = [qw_loc EXCEPT ![t].mark = qw_nput]
         ELSE UNCHANGED <<qw_pc, qw_loc>>
    /\ UNCHANGED <<qw_queue, qw_active, qw_queued, qw_written, qw_sink, qw_thread,
                   qw_frame, qw_nput, recorder>>

\* queued_writer.py:49
qw_close_flag(t) ==
    /\ qw_pc[t] = "c_flag"
    /\ qw_active' = FALSE
    /\ QwGoto(t, "c_put")
    /\ UNCHANGED <<qw_queue, qw_queued, qw_written, qw_sink, qw_thread, qw_frame,
                   qw_loc, qw_calls, qw_nput, recorder>>

\* queued_writer.py:50: the EOS marker is enqueued
qw_close_put(t) ==
    /\ qw_pc[t] = "c_put"
    /\ qw_queue' = Append(qw_queue, QwNone)
    /\ QwGoto(t, "c_join")
    /\ UNCHANGED <<qw_active, qw_queued, qw_written, qw_sink, qw_thread, qw_frame,
                   qw_loc, qw_calls, qw_nput, recorder>>

\* the loop thread has not ended 10 s after join began (queued_writer.py:54-57):
\* it is inside a call of the wrapped writer that takes that long
QwJoinTimesOut == qw_thread = "write"

\* queued_writer.py:53-57: join(timeout=10) returns when the thread has ended
\* or the time is up
qw_close_join(t) ==
    /\ qw_pc[t] = "c_join"
    /\ qw_thread # "off" => QwJoinTimesOut
    /\ QwGoto(t, "c_close")
    /\ UNCHANGED <<qw_queue, qw_active, qw_queued, qw_written, qw_sink, qw_thread,
                   qw_frame, qw_loc, qw_calls, qw_nput, recorder>>

\* queued_writer.py:60: self.writer.close(); whether it returns or raises, the
\* call ends here
qw_close_sink(t) ==
    /\ qw_pc[t] = "c_close"
    /\ qw_sink' = Append(qw_sink, SinkClose(qw_loc[t].mark))
    /\ QwReturn(t)
    /\ UNCHANGED <<qw_queue, qw_active, qw_queued, qw_written, qw_thread, qw_frame,
                   qw_calls, qw_nput, recorder>>

\* queued_writer.py:66: the item get() hands out
Dequeued_Last(q) == q[Len(q)]
Dequeued(q) == Head(q)
\* queued_writer.py:66: the queue get() leaves
Remaining(q) == Tail(q)

\* queued_writer.py:64-70 and 77-80: get(timeout=0.1) hands out an item, the
\* marker, which ends the loop, or raises Empty, which ends the loop once
\* self.active is False
process_loop_get ==
    /\ qw_thread = "get"
    /\ IF qw_queue = <<>>
         THEN /\ ~qw_active
              /\ qw_thread' = "off"
              /\ UNCHANGED <<qw_queue, qw_frame>>
         ELSE /\ qw_queue' = Remaining(qw_queue)
              /\ IF Dequeued(qw_queue) = QwNone
                   THEN qw_thread' = "off" /\ UNCHANGED qw_frame
                   ELSE qw_thread' = "write" /\ qw_frame' = Dequeued(qw_queue)
    /\ UNCHANGED <<qw_active, qw_queued, qw_written, qw_sink, qw_pc, qw_loc,
                   qw_calls, qw_nput, recorder>>

\* queued_writer.py:73-75 and 81-83: self.writer.write(frame) returns, and
\* written is counted, or raises, which is printed
process_loop_write ==
    /\ qw_thread = "write"
    /\ \E raised \in BOOLEAN :
         /\ qw_sink' = Append(qw_sink, SinkWrite(qw_frame, raised))
         /\ qw_written' = IF raised THEN qw_written ELSE qw_written + 1
    /\ qw_thread' = "get"
    /\ qw_frame' = QwNone
    /\ UNCHANGED <<qw_queue, qw_active, qw_queued, qw_pc, qw_loc, qw_calls,
                   qw_nput, recorder>>

\* ------------------------------------------------------------------ time
Tick ==
    /\ now < Epoch + MaxTime
    /\ now' = now + 1
    /\ UNCHANGED <<frame_queue, threadctl, session, writer, lock, active_recordings,
                   counters, sinks, pc, loc, ret, workers, history, callbacks, files,
                   queued_writer>>

\* --------------------------------------------------------- specifications
\* recorder.py:78, 95, 293, 426, 539: the places where a caller reads the clock
\* next; time that passes elsewhere shows at the next of them
ReadsClock(t) == pc[t] \in {"idle", "sr_drain", "sr_path"}

\* the rest of a start_recording call that found no session active
OpenSteps(t) ==
    \/ start_recording_enter(t)
    \/ start_recording_open(t)
    \/ start_recording_flag(t)
    \/ start_recording_id(t)
    \/ start_writer_thread_flag(t)
    \/ start_writer_thread_clear(t)
    \/ start_writer_thread_spawn(t)
    \/ start_recording_track(t)

\* the rest of an add_frame call
AddSteps(t) ==
    \/ add_frame_build(t)
    \/ add_frame_put(t)
    \/ add_frame_queued_read(t)
    \/ add_frame_queued_write(t)
    \/ add_frame_check(t)
    \/ add_frame_count_read(t)
    \/ add_frame_count_write(t)

\* the rest of a close call
CloseSteps(t) ==
    \/ close_enter(t)
    \/ close_flag(t)
    \/ close_event(t)
    \/ close_join(t)
    \/ close_drain(t)

WorkerSteps ==
    \E w \in Workers :
        \/ writer_loop_test(w)
        \/ writer_loop_get(w)
        \/ writer_loop_eos(w)
        \/ writer_loop_close(w)
        \/ writer_loop_data(w)
        \/ writer_loop_append(w)

\* Spec: one caller thread records, stops and closes; the writer loop runs
\* beside it.
Next ==
    \/ \E id \in Ids : start_recording_call("t1", id)
    \/ \E frame_bytes \in Payloads : add_frame_call("t1", frame_bytes)
    \/ \E id \in Ids : stop_recording("t1", id)
    \/ close_call("t1")
    \/ OpenSteps("t1")
    \/ stop_current_recording("t1")
    \/ AddSteps("t1")
    \/ CloseSteps("t1")
    \/ WorkerSteps
Spec == Init /\ [][Next]_vars

\* SpecOpen: one caller thread records, stops, deletes and cleans up on a
\* Recorder that is not closed, while the clock advances.
NextOpen ==
    \/ \E id \in Ids : start_recording_call("t1", id)
    \/ \E frame_bytes \in Payloads : add_frame_call("t1", frame_bytes)
    \/ \E id \in Ids : stop_recording("t1", id)
    \/ \E id \in Ids : delete_recording("t1", id)
    \/ \E age \in Ages : cleanup_old_recordings("t1", age)
    \/ OpenSteps("t1")
    \/ stop_current_recording("t1")
    \/ AddSteps("t1")
    \/ WorkerSteps
    \/ ReadsClock("t1") /\ Tick
SpecOpen == Init /\ [][NextOpen]_vars

\* SpecTimed: one caller thread records and stops action "A", again and again,
\* while the clock advances.
NextTimed ==
    \/ start_recording_call("t1", "A")
    \/ \E frame_bytes \in Payloads : add_frame_call("t1", frame_bytes)
    \/ \E id \in Ids : stop_recording("t1", id)
    \/ OpenSteps("t1")
    \/ AddSteps("t1")
    \/ WorkerSteps
    \/ ReadsClock("t1") /\ Tick
SpecTimed == Init /\ [][NextTimed]_vars

\* SpecDelete: one caller thread records and stops action "A" and deletes
\* recordings on a Recorder that is not closed.
NextDelete ==
    \/ start_recording_call("t1", "A")
    \/ \E frame_bytes \in Payloads : add_frame_call("t1", frame_bytes)
    \/ \E id \in Ids : stop_recording("t1", id)
    \/ \E id \in Ids : delete_recording("t1", id)
    \/ OpenSteps("t1")
    \/ AddSteps("t1")
    \/ WorkerSteps
SpecDelete == Init /\ [][NextDelete]_vars

\* SpecQueued: two threads write to and close one QueuedWriter while its loop
\* runs.
QwCallSteps(t) ==
    \/ qw_write_put(t)
    \/ qw_write_queued_read(t)
    \/ qw_write_queued_write(t)
    \/ qw_close_flag(t)
    \/ qw_close_put(t)
    \/ qw_close_join(t)
    \/ qw_close_sink(t)
NextQueued ==
    \/ \E t \in Threads : qw_write_call(t)
    \/ \E t \in Threads : qw_close_call(t)
    \/ \E t \in Threads : QwCallSteps(t)
    \/ process_loop_get
    \/ process_loop_write
SpecQueued == Init /\ [][NextQueued]_vars

\* SpecFeed: thread t1 starts and stops recordings while thread t2 adds frames.
NextFeed ==
    \/ \E id \in Ids : start_recording_call("t1", id)
    \/ \E id \in Ids : stop_recording("t1", id)
    \/ add_frame_call("t2", FrameBytes)
    \/ OpenSteps("t1")
    \/ stop_current_recording("t1")
    \/ AddSteps("t2")
    \/ WorkerSteps
SpecFeed == Init /\ [][NextFeed]_vars

\* SpecPairs: test_concurrent_same_action and test_concurrent_start_stop
\* (test_recorder.py:606-648).  Each thread calls start_recording(id) and then
\* stop_recording(id), again and again; a thread whose start_recording raised
\* has ended.
SentinelSteps ==
    \E w \in Workers :
        \/ writer_loop_test(w)
        \/ writer_loop_get(w)
        \/ writer_loop_eos(w)
        \/ writer_loop_close(w)
Finished(t) ==
    /\ pc[t] = "idle"
    /\ ret[t].op # "start" \/ ret[t].kind = "raised"
NextPairs ==
    \/ \E t \in Threads, id \in Ids :
         ret[t].op # "start" /\ start_recording_call(t, id)
    \/ \E t \in Threads :
         /\ ret[t].op = "start"
         /\ ret[t].path # NoPath
         /\ stop_recording(t, ret[t].path.id)
    \/ \E t \in Threads : OpenSteps(t)
    \/ \E t \in Threads : stop_current_recording(t)
    \/ SentinelSteps
SpecPairs == Init /\ [][NextPairs]_vars

\* SpecCallback: Spec on a Recorder that may have been given a finalize
\* callback.
NextCallback ==
    \/ set_on_recording_finalized
    \/ Next
SpecCallback == Init /\ [][NextCallback]_vars

\* SpecRace: thread t1 records while thread t2 closes the Recorder.
NextRace ==
    \/ \E id \in Ids : start_recording_call("t1", id)
    \/ \E frame_bytes \in Payloads : add_frame_call("t1", frame_bytes)
    \/ close_call("t2")
    \/ OpenSteps("t1")
    \/ stop_current_recording("t1")
    \/ AddSteps("t1")
    \/ CloseSteps("t2")
    \/ WorkerSteps
SpecRace == Init /\ [][NextRace]_vars

\* SpecLive: Spec in which the threads get processor time: a writer loop that
\* can take a step takes one, and a call in progress goes on.
CallSteps ==
    \/ OpenSteps("t1")
    \/ stop_current_recording("t1")
    \/ AddSteps("t1")
    \/ CloseSteps("t1")
SpecLive == Init /\ [][Next]_vars /\ WF_vars(WorkerSteps) /\ WF_vars(CallSteps)

\* SpecHang: Spec in which the threads get processor time, but a sink call that
\* a writer loop has begun need not return.
WorkerRuns ==
    \E w \in Workers :
        \/ writer_loop_test(w)
        \/ writer_loop_get(w)
        \/ writer_loop_eos(w)
        \/ writer_loop_data(w)
SpecHang == Init /\ [][Next]_vars /\ WF_vars(WorkerRuns) /\ WF_vars(CallSteps)

\* SpecProducers: test_thread_safety (test_recorder.py:543-574).  One session is
\* started; once start_recording has returned, the threads call add_frame.
Started == active_recordings # EmptyDict
NextProducers ==
    \/ ~Started /\ sinks = <<>> /\ start_recording_call("t1", "A")
    \/ \E t \in Threads, frame_bytes \in Payloads :
         Started /\ add_frame_call(t, frame_bytes)
    \/ OpenSteps("t1")
    \/ \E t \in Threads : AddSteps(t)
    \/ \E w \in Workers : writer_loop_test(w) \/ writer_loop_get(w)
                           \/ writer_loop_data(w) \/ writer_loop_append(w)
SpecProducers == Init /\ [][NextProducers]_vars

\* ================================================================ claims

Recording(a) == active_recordings[a].status = "recording"
AllIdle == \A t \in Threads : pc[t] = "idle"

\* C1: in every reachable state at most one entry of the session registry has
\* status "recording".
C1_AtMostOneRecording ==
    Cardinality({a \in DOMAIN active_recordings : Recording(a)}) <= 1

\* C2: the frames of a session appended to its sink appear in the order in
\* which they were enqueued, none of them twice (a frame's uid is its enqueue
\* rank).
C2_SinkOrderIsQueueOrder ==
    \A h \in 1..Len(sinks) :
        \A i, j \in 1..Len(sinks[h].frames) :
            (i < j /\ sinks[h].frames[i].gen = h /\ sinks[h].frames[j].gen = h)
                => sinks[h].frames[i].uid < sinks[h].frames[j].uid

\* C3: when the producer threads have made their add_frame calls against the
\* one session that was started, its frame_count is the number of those calls
\* that carried a valid frame.
C3_NoLostIncrement ==
    (AllIdle /\ "A" \in DOMAIN active_recordings)
        => active_recordings["A"].frame_count = accepted

C5_StartSameIdContinues ==
    [][\A t \in Threads :
         (/\ pc[t] = "sr_lock"
          /\ pc'[t] # "sr_lock"
          /\ is_recording
          /\ current_action_id = loc[t].id)
            => /\ ret'[t] = Ret("start", "same", sinks[Len(sinks)].path)
               /\ pc'[t] = "idle"
               /\ UNCHANGED <<active_recordings, frame_queue, sinks, writer, session,
                              counters, threadctl, workers, lock>>]_vars

C5_Witness ==
    /\ pc["t1"] = "idle"
    /\ ret["t1"].kind = "same"
    /\ is_recording
    /\ current_action_id \in DOMAIN active_recordings
    /\ active_recordings[current_action_id].frame_count = 1
    /\ Len(sinks) = 1

\* C6: when start_recording switches sessions, the status of the session it
\* replaces becomes "completed" only from "finalizing".
C6_SwitchFinalizingThenCompleted ==
    [][\A a \in DOMAIN active_recordings :
         (/\ a \in DOMAIN active_recordings'
          /\ active_recordings'[a].gen = active_recordings[a].gen
          /\ active_recordings'[a].status = "completed")
            => active_recordings[a].status \in {"finalizing", "completed"}]_vars

\* C7: stop_recording(id) with id not the active session returns None and
\* leaves the active session, the registry, the queue and the sinks unchanged.
C7_StopInactiveIsNoOp ==
    [][\A t \in Threads, id \in Ids :
         (stop_recording(t, id) /\ ~(is_recording /\ current_action_id = id))
            => /\ ret'[t] = Ret("stop", "none", NoPath)
               /\ UNCHANGED <<session, active_recordings, frame_queue, writer, sinks,
                              counters, threadctl, workers, lock>>]_vars

C7_Witness ==
    /\ ret["t1"] = Ret("stop", "none", NoPath)
    /\ is_recording
    /\ frame_queue # <<>>

Gens == 1..MaxOps
Stopped(a, g) ==
    /\ a \in DOMAIN active_recordings
    /\ active_recordings[a].gen = g
    /\ active_recordings[a].status = "finalizing"
Finalized(a, g) ==
    /\ a \in DOMAIN active_recordings
    /\ active_recordings[a].gen = g
    /\ active_recordings[a].status = "completed"
    /\ sinks[g].closes >= 1
Superseded(a, g) ==
    \/ a \notin DOMAIN active_recordings
    \/ active_recordings[a].gen # g
    \/ \A w \in Workers : ~Alive(w)
C9_SentinelCompletes ==
    \A a \in Ids, g \in Gens : Stopped(a, g) ~> (Finalized(a, g) \/ Superseded(a, g))

\* C10: a session has status "completed" only after a worker has processed its
\* EOS message.
C10_CompletedOnlyAfterSentinel ==
    \A a \in DOMAIN active_recordings :
        active_recordings[a].status = "completed"
            => active_recordings[a].gen \in eos_done

\* C11: a DATA message of a session that stop_recording has stopped, when a
\* worker processes it, is handed to that session's sink.
C11_QueuedFramesOfStoppedSessionWritten ==
    [][\A w \in Workers :
         (/\ wstate[w] = "hold"
          /\ wstate'[w] # "hold"
          /\ wframe[w].type = "DATA"
          /\ \E a \in DOMAIN active_recordings :
                /\ active_recordings[a].gen = wframe[w].gen
                /\ active_recordings[a].status = "finalizing")
            => /\ wstate'[w] = "io"
               /\ writer = wframe[w].gen]_vars

\* C12: add_frame while no session is active returns at once and changes
\* neither the queue, the registry nor the counters.
C12_AddFrameWithoutSessionIsNoOp ==
    [][\A t \in Threads, frame_bytes \in Payloads :
         (add_frame_call(t, frame_bytes) /\ ~is_recording)
            => /\ pc'[t] = "idle"
               /\ ret'[t] = Ret("add", "not_recording", NoPath)
               /\ UNCHANGED <<frame_queue, active_recordings, counters, session,
                              writer, sinks, threadctl, workers, lock, nput>>]_vars

C12_Witness ==
    /\ pc["t1"] = "idle"
    /\ ret["t1"] = Ret("add", "not_recording", NoPath)
    /\ active_recordings # EmptyDict
    /\ frame_queue # <<>>

\* C13: add_frame with a payload that is None or not of height*width*3 bytes,
\* while a session is active, returns without raising and changes neither the
\* queue, the registry nor the active session; a payload of that size is
\* accepted whatever came before.
C13_MalformedFrameDropped ==
    [][\A t \in Threads, frame_bytes \in Payloads :
         (add_frame_call(t, frame_bytes) /\ is_recording)
            => IF frame_bytes = FrameBytes
                 THEN pc'[t] = "af_build"
                 ELSE /\ pc'[t] = "idle"
                      /\ ret'[t] = Ret("add", "caught", NoPath)
                      /\ UNCHANGED <<frame_queue, active_recordings, counters, session,
                                     writer, sinks, threadctl, workers, lock, nput>>]_vars

C13_Witness ==
    /\ pc["t1"] = "idle"
    /\ ret["t1"] = Ret("add", "caught", NoPath)
    /\ is_recording
    /\ current_action_id \in DOMAIN active_recordings
    /\ active_recordings[current_action_id].frame_count = 1
    /\ nput = 1

\* C14: when imageio.get_writer raises inside start_recording, the call ends
\* with the exception, the registry is as it was, and a session that was active
\* when the call took the lock is still active, "recording", its sink open.
C14_FailedStartLeavesSessionUntouched ==
    [][\A t \in Threads :
         (pc[t] = "sr_path" /\ ret'[t] = Ret("start", "raised", NoPath))
            => /\ pc'[t] = "idle"
               /\ UNCHANGED active_recordings
               /\ loc[t].id \notin DOMAIN active_recordings
                    \/ active_recordings[loc[t].id].status # "recording"
               /\ loc[t].prev # None
                    => /\ is_recording'
                       /\ current_action_id' = loc[t].prev
                       /\ writer' # 0
                       /\ sinks'[writer'].closes = 0
                       /\ loc[t].prev \in DOMAIN active_recordings'
                            => active_recordings'[loc[t].prev].status = "recording"]_vars

\* C15: a writer loop ends only when the queue is empty.
C15_WorkerExitsOnEmptyQueue ==
    [][\A w \in Workers :
         (wstate[w] = "loop" /\ wstate'[w] = "off") => frame_queue = <<>>]_vars

\* C16: the locked part of close(), when a session is active, does what
\* stop_recording does: status "finalizing", end_time and duration set, one EOS
\* message appended, the active session cleared.
C16_CloseStopsActiveSession ==
    [][\A t \in Threads :
         (/\ pc[t] = "cl_lock"
          /\ pc'[t] # "cl_lock"
          /\ is_recording
          /\ current_action_id \in DOMAIN active_recordings)
            => /\ frame_queue' =
                    Append(frame_queue, EosMsg(current_action_id, Len(sinks)))
               /\ ~is_recording'
               /\ current_action_id' = None
               /\ active_recordings'[current_action_id].status = "finalizing"
               /\ active_recordings'[current_action_id].end_time = now
               /\ active_recordings'[current_action_id].duration =
                    now - active_recordings[current_action_id].start_time]_vars

\* C17: a close() call that has begun returns, and when it has returned
\* writer_active and is_recording are false.
C17_CloseReturns ==
    (pc["t1"] = "cl_lock")
        ~> (/\ pc["t1"] = "idle"
            /\ ret["t1"] = Ret("close", "none", NoPath)
            /\ ~writer_active
            /\ ~is_recording)

\* C18: when a sink call made by a writer loop raises, the registry entry of
\* the session that sink belongs to has status "error" from then on.
C18_SinkFailureRecorded ==
    [][\A g \in 1..Len(sinks) :
         (~sinks[g].raised /\ sinks'[g].raised)
            => \A a \in DOMAIN active_recordings' :
                 active_recordings'[a].gen = g
                    => active_recordings'[a].status = "error"]_vars

\* C19: with a finalize callback set, the step in which a writer loop's close
\* of a sink on an EOS message returns is followed at once by one call of the
\* callback for that message's action id, with status "completed".
C19_CallbackOnSentinelClose ==
    [][\A w \in Workers :
         (/\ on_recording_finalized
          /\ wstate[w] = "io"
          /\ wframe[w].type = "EOS"
          /\ wstate'[w] # "io"
          /\ ~sinks'[writer].raised)
            => finalize_calls' =
                 Append(finalize_calls,
                        [action_id |-> wframe[w].action_id,
                         status |-> "completed"])]_vars

\* C20: delete_recording of a registered id removes that entry and no other,
\* and returns False exactly when the file is still there afterwards;
\* delete_recording of an id that is not registered returns False and leaves
\* the registry and the files as they were.
C20_DeleteRemovesEntry ==
    [][\A t \in Threads, id \in Ids :
         delete_recording(t, id)
            => IF id \in DOMAIN active_recordings
                 THEN /\ DOMAIN active_recordings' = DOMAIN active_recordings \ {id}
                      /\ \A a \in DOMAIN active_recordings' :
                            active_recordings'[a] = active_recordings[a]
                      /\ ret'[t].op = "delete"
                      /\ ret'[t].kind = "false"
                            <=> active_recordings[id].file_path \in files'
                 ELSE /\ ret'[t] = Ret("delete", "false", NoPath)
                      /\ UNCHANGED <<active_recordings, files>>]_vars

\* after start_recording, add_frame and delete_recording, in that order, the
\* delete has returned False for the one registered id: its file is there and
\* the registry is empty
C20_Witness ==
    /\ ops = 3
    /\ pc["t1"] = "idle"
    /\ ret["t1"] = Ret("delete", "false", NoPath)
    /\ files # {}
    /\ active_recordings = EmptyDict

\* C21: the items the wrapped writer has received are in the order in which
\* they were enqueued, none of them twice.
SinkItems == SelectSeq(qw_sink, LAMBDA e : e.op = "write")
C21_QueuedWriterForwardsInOrder ==
    \A i, j \in 1..Len(SinkItems) :
        i < j => SinkItems[i].item < SinkItems[j].item

\* three write() calls have returned and the wrapped writer has received their
\* items
C21_Witness ==
    /\ Len(SinkItems) >= 3
    /\ qw_queued >= 2
    /\ \A t \in Threads : qw_pc[t] = "idle"

\* C22: when the wrapped writer receives close(), the loop has ended, every
\* item enqueued before that close() call began has been handed to the wrapped
\* writer, and no write follows.
C22_SinkClosedAfterLoop ==
    \A i \in 1..Len(qw_sink) :
        qw_sink[i].op = "close"
            => /\ \A j \in 1..Len(qw_sink) : j > i => qw_sink[j].op # "write"
               /\ \A u \in 1..qw_sink[i].mark :
                     \E j \in 1..(i - 1) :
                         qw_sink[j].op = "write" /\ qw_sink[j].item = u

\* C23: a start_recording that finds another session active appends that
\* session's EOS message to the queue when it stops it.
C23_SwitchEnqueuesSentinel ==
    [][\A t \in Threads :
         (pc[t] = "sr_drain" /\ pc'[t] # "sr_drain")
            => /\ Len(frame_queue') = Len(frame_queue) + 1
               /\ frame_queue'[Len(frame_queue')].type = "EOS"
               /\ frame_queue'[Len(frame_queue')].action_id = loc[t].prev]_vars

\* C24: when a start_recording that finds another session active closes that
\* session's sink, no DATA message accepted for that sink is still in the
\* queue or in the hand of a writer loop.
C24_SwitchWritesQueuedFrames ==
    [][\A t \in Threads :
         (pc[t] = "sr_drain" /\ pc'[t] # "sr_drain" /\ writer # 0)
            => /\ \A i \in 1..Len(frame_queue) :
                     ~(frame_queue[i].type = "DATA" /\ frame_queue[i].gen = writer)
               /\ \A w \in Workers :
                     ~(wframe[w].type = "DATA" /\ wframe[w].gen = writer)]_vars

\* C25: the frame_count of a session changes only in a step that begins with
\* that session active.
C25_FrameCountFrozenWhenInactive ==
    [][\A a \in DOMAIN active_recordings :
         (/\ a \in DOMAIN active_recordings'
          /\ active_recordings'[a].gen = active_recordings[a].gen
          /\ active_recordings'[a].frame_count # active_recordings[a].frame_count)
            => is_recording /\ current_action_id = a]_vars

\* C26: at most one writer-loop thread is alive.
C26_OneWriterLoop ==
    Cardinality({w \in Workers : Alive(w)}) <= 1

\* C27: every step in which a sink receives a call (append or close) is a step
\* of a writer loop.
C27_OnlyWorkerCallsSinks ==
    [][\A g \in 1..Len(sinks) :
         sinks'[g] # sinks[g]
            => \E w \in Workers : wstate[w] = "io" /\ wstate'[w] # "io"]_vars

\* C28: a writer loop that is inside a sink call does not hold the lock, and
\* neither does a caller that waits for the queue to become empty.
C28_LockNotHeldAcrossIO ==
    /\ \A w \in Workers : wstate[w] = "io" => lock # WorkerNames[w]
    /\ \A t \in Threads : pc[t] = "sr_drain" => lock # t

\* C29: when a sink call of a writer loop ends, by returning or by raising, the
\* loop goes on to its next test with the lock released.
C29_SinkErrorKeepsLoopRunning ==
    [][\A w \in Workers :
         (wstate[w] = "io" /\ wstate'[w] # "io")
            => wstate'[w] = "loop" /\ lock' = None]_vars

\* two frames were enqueued; the append of the first raised, and the writer
\* loop went on to append the second
C29_Witness ==
    /\ nput = 2
    /\ Len(sinks) = 1
    /\ sinks[1].raised
    /\ Len(sinks[1].frames) = 1
    /\ sinks[1].frames[1].uid = 2

\* C30: when every thread has ended its pairs of start_recording(id) and
\* stop_recording(id), no session is active.
C30_PairsLeaveNoSession ==
    (\A t \in Threads : Finished(t)) => ~is_recording /\ current_action_id = None

\* both threads have run a pair; t1's stop_recording found its session gone, t2's
\* stopped the active one
C30_Witness ==
    /\ \A t \in Threads : pc[t] = "idle" /\ ret[t].op = "stop"
    /\ ret["t1"].kind = "none"
    /\ ret["t2"].kind = "path"
    /\ Cardinality(DOMAIN active_recordings) = 2

\* C31: of two DATA messages of one session in the queue, the later one carries
\* the greater frame_number.
C31_SequenceNumbersIncrease ==
    \A i, j \in 1..Len(frame_queue) :
        (/\ i < j
         /\ frame_queue[i].type = "DATA"
         /\ frame_queue[j].type = "DATA"
         /\ frame_queue[i].gen = frame_queue[j].gen)
            => frame_queue[i].frame_number < frame_queue[j].frame_number

\* C32: no two sinks that start_recording has created have the same path.
C32_PathsDoNotCollide ==
    \A g, h \in 1..Len(sinks) : g # h => sinks[g].path # sinks[h].path

\* C33: the wrapped writer receives close() at most once, however many close()
\* calls are made and however they interleave.
SinkCloses == SelectSeq(qw_sink, LAMBDA e : e.op = "close")
C33_QueuedWriterClosedOnce ==
    Len(SinkCloses) <= 1

\* C34: while a session is active the sink handle is not None.
C34_ActiveSessionHasOpenSink ==
    is_recording => writer # 0

\* C35: every frame in a sink was accepted while that sink was the open one.
C35_FramesStayInTheirRecording ==
    \A g \in 1..Len(sinks) :
        \A i \in 1..Len(sinks[g].frames) : sinks[g].frames[i].gen = g

\* C36: when no call is in progress and a session is active, a writer-loop
\* thread is alive.
C36_ActiveSessionHasWriterLoop ==
    (AllIdle /\ is_recording) => \E w \in Workers : Alive(w)

\* C37: cleanup_old_recordings(max_age_hours) removes an entry only if the
\* session has ended, more than max_age_hours ago.
C37_CleanupKeepsActiveSession ==
    [][\A t \in Threads, age \in Ages :
         cleanup_old_recordings(t, age)
            => \A a \in DOMAIN active_recordings \ DOMAIN active_recordings' :
                 /\ active_recordings[a].end_time # NoTime
                 /\ now - active_recordings[a].end_time > age * SecondsPerHour]_vars

\* C38: a sink receives close() only if it has not been closed, and a frame
\* only if it has not been closed.
C38_SinkClosedOnceNoLateFrames ==
    [][\A g \in 1..Len(sinks) :
         /\ sinks'[g].closes # sinks[g].closes
               => sinks[g].closes = 0 /\ sinks'[g].closes = 1
         /\ sinks'[g].frames # sinks[g].frames
               => sinks[g].closes = 0]_vars

\* the first sink has received a frame and then close(), from the caller or
\* from the writer loop, and the second sink has received a frame since
C38_Witness ==
    /\ Len(sinks) >= 2
    /\ sinks[1].closes = 1
    /\ sinks[1].frames # <<>>
    /\ \E i \in 1..Len(sinks[2].frames) : sinks[2].frames[i].gen = 2

\* C39: when every call has returned, the wrapped writer has been closed, the
\* loop has ended before that close (no write follows a close) and no write
\* raised, self.written equals self.queued.
C39_WrittenEqualsQueued ==
    (/\ \A t \in Threads : qw_pc[t] = "idle"
     /\ Len(SinkCloses) >= 1
     /\ qw_thread = "off"
     /\ \A i \in 1..Len(qw_sink) :
           qw_sink[i].op = "write"
              => /\ ~qw_sink[i].raised
                 /\ \A j \in 1..(i - 1) : qw_sink[j].op # "close")
        => qw_written = qw_queued

====
